---- MODULE Spec2Model ----
(***************************************************************************)
(* Model of pkg/upstream/transport/transport.go: the DNS Transport with    *)
(* its three exchange strategies (no connection reuse, reusable            *)
(* connections, pipelined connections), the pool bags guarded by the       *)
(* transport mutex, the per-connection state machines and the background   *)
(* goroutines (dial task, read loop, end-of-life closer, idle timer).      *)
(*                                                                         *)
(* Granularity: one action per critical section of Transport.m and per     *)
(* return of an injected hook (DialFunc, WriteFunc, ReadFunc) or of a      *)
(* select.  Statements between two such points touch only goroutine-local  *)
(* data and are folded into the preceding action.                          *)
(***************************************************************************)
EXTENDS Integers, FiniteSets, Sequences, TLC

\* ------------------------------------------------------------------ bounds
NumCallers == 2        \* concurrent ExchangeContext calls
MaxPipelineConnIds == 3 \* pipelineConn objects that can ever be allocated
MaxReusableConnIds == 2 \* reusableConn objects that can ever be allocated
MaxWireId == 2         \* message identifiers the upstream may send: 1..MaxWireId

\* ------------------------------------------------------- program constants
defaultMaxConns == 2
defaultMaxQueryPerConn == 65535
Uint16Mod == 65536
MaxAttempt == 3

Callers == 1..NumCallers
PConnIds == 1..MaxPipelineConnIds
RConnIds == 1..MaxReusableConnIds
WireIds == 1..MaxWireId

NoConn == 0
NoMsg == -1

errNil == "nil"
errEOL == "end of life"
errClosedTransport == "transport has been closed"
errDial == "dial error"
errWrite == "write error"
errRead == "read error"
errCtx == "context canceled"

\* The caller's own query identifier (q.Id).
QueryId(p) == 4368 + p

VARIABLES
  cfg,                 \* Transport's exported configuration fields
  closed,              \* Transport.closed
  pipelineConns,       \* Transport.pipelineConns
  reusableConns,       \* Transport.reusableConns
  idledReusableConns,  \* Transport.idledReusableConns
  pconn,               \* the pipelineConn objects
  rconn,               \* the reusableConn objects
  call,                \* the ExchangeContext calls (one goroutine each)
  panicked             \* the process died in panic("qid overflowed")

vars == <<cfg, closed, pipelineConns, reusableConns, idledReusableConns,
          pconn, rconn, call, panicked>>

\* ----------------------------------------------------------- configuration
idleTimeout == IF cfg.IdleTimeout = 0 THEN 10 ELSE cfg.IdleTimeout

maxConns == IF cfg.MaxConns > 0 THEN cfg.MaxConns ELSE defaultMaxConns

maxQueryPerConn ==
  IF cfg.MaxQueryPerConn > 0 THEN cfg.MaxQueryPerConn ELSE defaultMaxQueryPerConn

PipelineMode == idleTimeout > 0 /\ cfg.EnablePipeline
ReuseMode == idleTimeout > 0 /\ ~cfg.EnablePipeline
NoReuseMode == idleTimeout <= 0

Configs ==
  {[IdleTimeout |-> 0, EnablePipeline |-> TRUE, MaxConns |-> mc, MaxQueryPerConn |-> mq] :
      mc \in {0, 1}, mq \in {0, 1, 2}}
  \cup {[IdleTimeout |-> 0, EnablePipeline |-> FALSE, MaxConns |-> 0, MaxQueryPerConn |-> 0]}
  \cup {[IdleTimeout |-> -1, EnablePipeline |-> ep, MaxConns |-> 0, MaxQueryPerConn |-> 0] :
      ep \in BOOLEAN}

\* -------------------------------------------------------------- initial state
EmptyQueue == [k \in {} |-> <<0, 0>>]

NewPConn ==
  [dial |-> "none", accumulateId |-> 0, wg |-> 0, queue |-> EmptyQueue,
   c |-> FALSE, stream |-> "none", streamCloses |-> 0,
   dialFinishedNotify |-> FALSE, closeNotify |-> FALSE, closeErr |-> errNil,
   eolCloser |-> FALSE, readLoop |-> FALSE, issued |-> <<>>]

NewRConn ==
  [made |-> FALSE, closed |-> FALSE, idleTimeoutTimer |-> "nil", streamCloses |-> 0]

NewCall(p) ==
  [pc |-> "idle", ctx |-> FALSE, q |-> QueryId(p), attempt |-> 0,
   conn |-> NoConn, isNewConn |-> FALSE, qid |-> 0, resChan |-> NoMsg,
   resErr |-> errNil, r |-> NoMsg, err |-> errNil, dials |-> 0,
   worker |-> "none", reused |-> FALSE, stream |-> "none",
   entryClosed |-> FALSE, entryCancelled |-> FALSE]

Init ==
  /\ cfg \in Configs
  /\ closed = FALSE
  /\ pipelineConns = {}
  /\ reusableConns = {}
  /\ idledReusableConns = {}
  /\ pconn = [c \in PConnIds |-> NewPConn]
  /\ rconn = [c \in RConnIds |-> NewRConn]
  /\ call = [p \in Callers |-> NewCall(p)]
  /\ panicked = FALSE

Running == ~panicked

Min(S) == CHOOSE x \in S : \A y \in S : x <= y

Restrict(f, S) == [k \in S |-> f[k]]

\* ------------------------------------------------------------ pipelineConn
\* pipelineConn.isClosed: utils.ClosedChan(c.closeNotify)
isClosed(c) == pconn[c].closeNotify

\* pipelineConn.queueLen
queueLen(c) == Cardinality(DOMAIN pconn[c].queue)

\* Mutant: closeWithErr without its closeOnce.
closeWithErrEachTime(cr, err) ==
  [cr EXCEPT !.closeErr = err,
             !.closeNotify = TRUE,
             !.stream = IF cr.c THEN "closed" ELSE @,
             !.streamCloses = IF cr.c THEN @ + 1 ELSE @]

\* pipelineConn.closeWithErr, as a function of the connection object.  The
\* closeOnce has run exactly when closeNotify is closed.
closeWithErr(cr, err) ==
  IF cr.closeNotify
    THEN cr
    ELSE [cr EXCEPT !.closeErr = err,
                    !.closeNotify = TRUE,
                    !.stream = IF cr.c THEN "closed" ELSE @,
                    !.streamCloses = IF cr.c THEN @ + 1 ELSE @]

\* Mutant: the counter is loaded, not incremented.
AddAccumulateIdLoad(acc) == acc

\* atomic.AddUint32(&c.accumulateId, 1).  The counter is a uint32 that the
\* overflow panic keeps at or below 65536, far from its wrap.
AddAccumulateId(acc) == acc + 1

\* id > maxQid: panic("qid overflowed")
QidOverflowed(id) == id > maxQueryPerConn

\* Mutant: the end-of-life mark comes one query late.
EolMarkLate(id) == id > maxQueryPerConn

\* eol = id == maxQid
EolMark(id) == id = maxQueryPerConn

\* uint16(id)
QidOf(id) == id % Uint16Mod

\* pipelineConn.acquireQueueId on a connection object whose counter does not
\* overflow: the counter, the wait group, the end-of-life closer goroutine.
acquireQueueId(cr) ==
  LET id == AddAccumulateId(cr.accumulateId)
  IN [cr EXCEPT !.accumulateId = id,
                !.wg = @ + 1,
                !.eolCloser = @ \/ EolMark(id),
                !.issued = Append(@, QidOf(id))]

\* The goroutine started by newPipelineConn: DialFunc returns, then the
\* critical section of connMu.
DialTask(c) ==
  /\ Running
  /\ pconn[c].dial = "dialing"
  /\ \E ok \in BOOLEAN :
       pconn' = [pconn EXCEPT ![c] =
         IF ~ok
           THEN [closeWithErr(@, errDial) EXCEPT !.dial = "done"]
           ELSE IF @.closeNotify
             THEN [@ EXCEPT !.dial = "done", !.stream = "closed",
                            !.streamCloses = @ + 1]
             ELSE [@ EXCEPT !.dial = "done", !.stream = "open", !.c = TRUE,
                            !.dialFinishedNotify = TRUE, !.readLoop = TRUE]]
  /\ UNCHANGED <<cfg, closed, pipelineConns, reusableConns, idledReusableConns,
                 rconn, call, panicked>>

\* Mutant: the end-of-life closer does not wait for the wait group.
EolCloserNoWait(c) ==
  /\ Running
  /\ pconn[c].eolCloser
  /\ pconn' = [pconn EXCEPT ![c] = [closeWithErr(@, errEOL) EXCEPT !.eolCloser = FALSE]]
  /\ UNCHANGED <<cfg, closed, pipelineConns, reusableConns, idledReusableConns,
                 rconn, call, panicked>>

\* The goroutine started by acquireQueueId at end of life: c.wg.Wait(), then
\* c.closeWithErr(errEOL).
EolCloser(c) ==
  /\ Running
  /\ pconn[c].eolCloser
  /\ pconn[c].wg = 0
  /\ pconn' = [pconn EXCEPT ![c] = [closeWithErr(@, errEOL) EXCEPT !.eolCloser = FALSE]]
  /\ UNCHANGED <<cfg, closed, pipelineConns, reusableConns, idledReusableConns,
                 rconn, call, panicked>>

\* The channel an exchange registered in the queue is identified by the call
\* and its attempt; a send to the channel of an attempt that is over lands in
\* a buffer nobody reads.
Listening(p, ch) ==
  /\ ch[1] = p
  /\ ch[2] = call[p].attempt
  /\ call[p].pc \in {"pl_writing", "pl_wait_reply"}

\* One iteration of pipelineConn.readLoop in which ReadFunc returns a message
\* carrying identifier id.
readLoopMsg(c, id) ==
  /\ Running
  /\ pconn[c].readLoop
  /\ pconn[c].stream = "open"
  /\ IF id \in DOMAIN pconn[c].queue
       THEN LET ch == pconn[c].queue[id]
            IN /\ pconn' = [pconn EXCEPT ![c].queue = Restrict(@, DOMAIN @ \ {id})]
               /\ call' = [p \in Callers |->
                    IF Listening(p, ch) /\ call[p].resChan = NoMsg
                      THEN [call[p] EXCEPT !.resChan = id]
                      ELSE call[p]]
       ELSE UNCHANGED <<pconn, call>>
  /\ UNCHANGED <<cfg, closed, pipelineConns, reusableConns, idledReusableConns,
                 rconn, panicked>>

\* The iteration of pipelineConn.readLoop in which ReadFunc returns an error
\* (deadline passed, stream closed or broken): closeWithErr and return.
readLoopErr(c) ==
  /\ Running
  /\ pconn[c].readLoop
  /\ pconn' = [pconn EXCEPT ![c] = [closeWithErr(@, errRead) EXCEPT !.readLoop = FALSE]]
  /\ UNCHANGED <<cfg, closed, pipelineConns, reusableConns, idledReusableConns,
                 rconn, call, panicked>>

\* --------------------------------------------------- pipelined ExchangeContext
\* Mutant: ExchangeContext does not look at Transport.closed.
transportIsClosedSkipped == FALSE

\* Transport.isClosed
transportIsClosed == closed

\* Mutant: a failed attempt is retried whoever created the connection.
PipelineAttemptDoneAnyConn(cl, r, err) ==
  IF err # errNil /\ cl.attempt <= MaxAttempt
    THEN [cl EXCEPT !.pc = "pl_loop", !.resChan = NoMsg, !.conn = NoConn, !.qid = 0]
    ELSE [cl EXCEPT !.pc = "done", !.resChan = NoMsg, !.conn = NoConn, !.qid = 0,
                    !.r = r, !.err = err]

\* The tail of one iteration of exchangeWithPipelineConn: retry, or return.
PipelineAttemptDone(cl, r, err) ==
  IF err # errNil /\ ~cl.isNewConn /\ cl.attempt <= MaxAttempt
    THEN [cl EXCEPT !.pc = "pl_loop", !.resChan = NoMsg, !.conn = NoConn, !.qid = 0]
    ELSE [cl EXCEPT !.pc = "done", !.resChan = NoMsg, !.conn = NoConn, !.qid = 0,
                    !.r = r, !.err = err]

\* Head of one iteration of exchangeWithPipelineConn: attempt++, ctx.Err().
exchangeWithPipelineConn(p) ==
  /\ Running
  /\ call[p].pc = "pl_loop"
  /\ call' = [call EXCEPT ![p] =
       IF call[p].ctx
         THEN [@ EXCEPT !.pc = "done", !.attempt = @ + 1, !.err = errCtx]
         ELSE [@ EXCEPT !.pc = "pl_get", !.attempt = @ + 1]]
  /\ UNCHANGED <<cfg, closed, pipelineConns, reusableConns, idledReusableConns,
                 pconn, rconn, panicked>>

\* The range loop of getPipelineConn over the map pipelineConns, whose order
\* is unspecified: the candidate it stops at and the map after the deletions
\* of the closed connections visited before it.
PipelineCandidates ==
  LET live == {c \in pipelineConns : ~isClosed(c)}
      dead == pipelineConns \ live
  IN IF live = {}
       THEN {<<NoConn, {}>>}
       ELSE {<<c, pipelineConns \ d>> : c \in live, d \in SUBSET dead}

\* Mutant: the pool size is compared with <= instead of <.
NeedNewConnLe(cand, conns) ==
  cand = NoConn \/ (queueLen(cand) > 0 /\ Cardinality(conns) <= maxConns)

\* conn == nil || (conn.queueLen() > 0 && len(t.pipelineConns) < t.maxConns())
NeedNewConn(cand, conns) ==
  cand = NoConn \/ (queueLen(cand) > 0 /\ Cardinality(conns) < maxConns)

FreePConnIds == {c \in PConnIds : pconn[c].dial = "none"}

\* Transport.getPipelineConn, one critical section of Transport.m, with
\* newPipelineConn and acquireQueueId.
getPipelineConn(p) ==
  /\ Running
  /\ call[p].pc = "pl_get"
  /\ IF closed
       THEN /\ call' = [call EXCEPT ![p] =
                 [@ EXCEPT !.pc = "done", !.err = errClosedTransport]]
            /\ UNCHANGED <<pipelineConns, pconn, panicked>>
       ELSE \E sel \in PipelineCandidates :
              LET isNew == NeedNewConn(sel[1], sel[2])
              IN /\ isNew => FreePConnIds # {}
                 /\ LET conn == IF isNew THEN Min(FreePConnIds) ELSE sel[1]
                        conns == IF isNew THEN sel[2] \cup {conn} ELSE sel[2]
                        cr == IF isNew THEN [NewPConn EXCEPT !.dial = "dialing"]
                                       ELSE pconn[conn]
                        id == AddAccumulateId(cr.accumulateId)
                    IN IF QidOverflowed(id)
                         THEN /\ panicked' = TRUE
                              /\ UNCHANGED <<pipelineConns, pconn, call>>
                         ELSE /\ pconn' = [pconn EXCEPT ![conn] = acquireQueueId(cr)]
                              /\ pipelineConns' =
                                   IF EolMark(id) THEN conns \ {conn} ELSE conns
                              /\ call' = [call EXCEPT ![p] =
                                   [@ EXCEPT !.pc = "pl_wait_dial", !.conn = conn,
                                             !.isNewConn = isNew, !.qid = QidOf(id),
                                             !.dials = IF isNew THEN @ + 1 ELSE @]]
                              /\ UNCHANGED panicked
  /\ UNCHANGED <<cfg, closed, reusableConns, idledReusableConns, rconn>>

\* Mutant: an exchange whose context is done closes the connection as it
\* leaves.
CtxReturnClosing(cr) == [closeWithErr(cr, errCtx) EXCEPT !.wg = @ - 1]

\* pipelineConn.exchange, "case <-ctx.Done(): return nil, ctx.Err()": the
\* connection after the return, on which only the deferred c.wg.Done() acts.
CtxReturn(cr) == [cr EXCEPT !.wg = @ - 1]

\* pipelineConn.exchange, first select: dialFinishedNotify, closeNotify or
\* ctx.Done().  On dialFinishedNotify the delivery channel is registered in
\* the queue and the exchange enters SetWriteDeadline/WriteFunc.
exchangeWaitDial(p) ==
  LET cl == call[p]
      c == cl.conn
  IN /\ Running
     /\ cl.pc = "pl_wait_dial"
     /\ \/ /\ pconn[c].dialFinishedNotify
           /\ pconn' = [pconn EXCEPT ![c].queue =
                          (cl.qid :> <<p, cl.attempt>>) @@ @]
           /\ call' = [call EXCEPT ![p].pc = "pl_writing"]
        \/ /\ pconn[c].closeNotify
           /\ pconn' = [pconn EXCEPT ![c].wg = @ - 1]
           /\ call' = [call EXCEPT ![p] = PipelineAttemptDone(cl, NoMsg, pconn[c].closeErr)]
        \/ /\ cl.ctx
           /\ pconn' = [pconn EXCEPT ![c] = CtxReturn(@)]
           /\ call' = [call EXCEPT ![p] = PipelineAttemptDone(cl, NoMsg, errCtx)]
     /\ UNCHANGED <<cfg, closed, pipelineConns, reusableConns, idledReusableConns,
                    rconn, panicked>>

\* pipelineConn.exchange: WriteFunc returns.
exchangeWrite(p) ==
  LET cl == call[p]
      c == cl.conn
  IN /\ Running
     /\ cl.pc = "pl_writing"
     /\ \/ /\ call' = [call EXCEPT ![p].pc = "pl_wait_reply"]
           /\ UNCHANGED pconn
        \/ /\ pconn' = [pconn EXCEPT ![c] = [closeWithErr(@, errWrite) EXCEPT !.wg = @ - 1]]
           /\ call' = [call EXCEPT ![p] = PipelineAttemptDone(cl, NoMsg, errWrite)]
     /\ UNCHANGED <<cfg, closed, pipelineConns, reusableConns, idledReusableConns,
                    rconn, panicked>>

\* Mutant: the caller's identifier is not restored on the reply.
RestoreIdOmitted(r, q) == r

\* r.Id = q.Id
RestoreId(r, q) == q

\* pipelineConn.exchange, second select: ctx.Done(), resChan or closeNotify.
exchangeWaitReply(p) ==
  LET cl == call[p]
      c == cl.conn
  IN /\ Running
     /\ cl.pc = "pl_wait_reply"
     /\ \/ /\ cl.ctx
           /\ pconn' = [pconn EXCEPT ![c] = CtxReturn(@)]
           /\ call' = [call EXCEPT ![p] = PipelineAttemptDone(cl, NoMsg, errCtx)]
        \/ /\ cl.resChan # NoMsg
           /\ pconn' = [pconn EXCEPT ![c].wg = @ - 1]
           /\ call' = [call EXCEPT ![p] =
                PipelineAttemptDone(cl, RestoreId(cl.resChan, cl.q), errNil)]
        \/ /\ pconn[c].closeNotify
           /\ pconn' = [pconn EXCEPT ![c].wg = @ - 1]
           /\ call' = [call EXCEPT ![p] = PipelineAttemptDone(cl, NoMsg, pconn[c].closeErr)]
     /\ UNCHANGED <<cfg, closed, pipelineConns, reusableConns, idledReusableConns,
                    rconn, panicked>>

\* ------------------------------------------------------------ reusableConn
\* The idle timer is nil, armed (running), stopped (Stop succeeded), fired
\* (expired, its function not yet run) or expired (its function has run).

\* reusableConn.close, as a function of the connection object.
rcClose(rr) ==
  IF rr.closed
    THEN rr
    ELSE [rr EXCEPT !.closed = TRUE,
                    !.streamCloses = @ + 1,
                    !.idleTimeoutTimer = IF @ = "armed" THEN "stopped" ELSE @]

\* Mutant: stopIdle does not look at what idleTimeoutTimer.Stop() returns.
stopIdleOkTimerIgnored(rr) == ~rr.closed

\* The value reusableConn.stopIdle returns: false when closed, else the
\* result of idleTimeoutTimer.Stop() (true for a nil timer).
stopIdleOk(rr) == ~rr.closed /\ rr.idleTimeoutTimer \in {"nil", "armed"}

\* reusableConn.stopIdle, as a function of the connection object.
stopIdle(rr) ==
  IF ~rr.closed /\ rr.idleTimeoutTimer = "armed"
    THEN [rr EXCEPT !.idleTimeoutTimer = "stopped"]
    ELSE rr

\* reusableConn.startIdle, as a function of the connection object.
startIdle(rr) ==
  IF rr.closed THEN rr ELSE [rr EXCEPT !.idleTimeoutTimer = "armed"]

\* The idle timer expires: the runtime starts its function in a goroutine.
IdleTimerFire(c) ==
  /\ Running
  /\ rconn[c].idleTimeoutTimer = "armed"
  /\ rconn' = [rconn EXCEPT ![c].idleTimeoutTimer = "fired"]
  /\ UNCHANGED <<cfg, closed, pipelineConns, reusableConns, idledReusableConns,
                 pconn, call, panicked>>

\* The function given to time.AfterFunc runs: rc.close().
IdleTimerFunc(c) ==
  /\ Running
  /\ rconn[c].idleTimeoutTimer = "fired"
  /\ rconn' = [rconn EXCEPT ![c] = [rcClose(@) EXCEPT !.idleTimeoutTimer = "expired"]]
  /\ UNCHANGED <<cfg, closed, pipelineConns, reusableConns, idledReusableConns,
                 pconn, call, panicked>>

\* ---------------------------------------- ExchangeContext, reusable connections
\* The replies ReadFunc may return to a call outside pipeline mode.
ReplyIds(p) == {1, QueryId(p)}

\* Head of the worker's loop in exchangeWithReusableConn: ctx.Err() == nil.
reusableWorkerLoop(p) ==
  /\ Running
  /\ call[p].worker = "w_loop"
  /\ call' = [call EXCEPT ![p].worker = IF call[p].ctx THEN "exit" ELSE "w_pool"]
  /\ UNCHANGED <<cfg, closed, pipelineConns, reusableConns, idledReusableConns,
                 pconn, rconn, panicked>>

\* The range loop of getReusableConnFromPool over idledReusableConns, whose
\* order is unspecified: the connection it returns (none when no stopIdle
\* succeeds) and the connections it visited, deleted and closed before.
PoolCandidates ==
  LET good == {c \in idledReusableConns : stopIdleOk(rconn[c])}
      bad == idledReusableConns \ good
  IN IF good = {}
       THEN {<<NoConn, bad>>}
       ELSE {<<c, d>> : c \in good, d \in SUBSET bad}

\* Transport.getReusableConnFromPool, one critical section of Transport.m,
\* and getReusableConn up to the call of DialFunc.
getReusableConnFromPool(p) ==
  /\ Running
  /\ call[p].worker = "w_pool"
  /\ IF closed
       THEN /\ call' = [call EXCEPT ![p] =
                 [@ EXCEPT !.worker = "exit", !.resErr = errClosedTransport]]
            /\ UNCHANGED <<idledReusableConns, rconn>>
       ELSE \E sel \in PoolCandidates :
              /\ idledReusableConns' = idledReusableConns \ (sel[2] \cup {sel[1]})
              /\ rconn' = [c \in RConnIds |->
                   IF c \in sel[2] THEN rcClose(rconn[c])
                   ELSE IF c = sel[1] THEN stopIdle(rconn[c])
                   ELSE rconn[c]]
              /\ call' = [call EXCEPT ![p] =
                   IF sel[1] # NoConn
                     THEN [@ EXCEPT !.worker = "w_exchange", !.conn = sel[1],
                                    !.reused = TRUE]
                     ELSE [@ EXCEPT !.worker = "w_dial", !.dials = @ + 1]]
  /\ UNCHANGED <<cfg, closed, pipelineConns, reusableConns, pconn, panicked>>

FreeRConnIds == {c \in RConnIds : ~rconn[c].made}

\* Transport.getReusableConn: DialFunc returns, newReusableConn, and the
\* critical section of Transport.m that admits the connection.
getReusableConnDial(p) ==
  /\ Running
  /\ call[p].worker = "w_dial"
  /\ \/ /\ call' = [call EXCEPT ![p] = [@ EXCEPT !.worker = "exit", !.resErr = errDial]]
        /\ UNCHANGED <<reusableConns, rconn>>
     \/ /\ FreeRConnIds # {}
        /\ LET c == Min(FreeRConnIds)
           IN IF closed
                THEN /\ rconn' = [rconn EXCEPT ![c] = rcClose([@ EXCEPT !.made = TRUE])]
                     /\ call' = [call EXCEPT ![p] =
                          [@ EXCEPT !.worker = "exit", !.resErr = errClosedTransport]]
                     /\ UNCHANGED reusableConns
                ELSE /\ rconn' = [rconn EXCEPT ![c].made = TRUE]
                     /\ reusableConns' = reusableConns \cup {c}
                     /\ call' = [call EXCEPT ![p] =
                          [@ EXCEPT !.worker = "w_exchange", !.conn = c, !.reused = FALSE]]
  /\ UNCHANGED <<cfg, closed, pipelineConns, idledReusableConns, pconn, panicked>>

\* Transport.releaseReusableConn: reusableConns after the critical section.
ReleasedReusable(c, deadConn) ==
  IF deadConn THEN reusableConns \ {c} ELSE reusableConns

\* Mutant: releaseReusableConn does not look at Transport.closed.
ReleaseToIdleUnchecked(deadConn) == ~deadConn

\* Transport.releaseReusableConn: does the connection go to the idle pool.
ReleaseToIdle(deadConn) == ~closed /\ ~deadConn

\* reusableConn.exchange returns (WriteFunc, then ReadFunc), then
\* releaseReusableConn, then the worker continues, or sends its result.
reusableExchange(p) ==
  LET cl == call[p]
      c == cl.conn
  IN /\ Running
     /\ cl.worker = "w_exchange"
     /\ \/ \E id \in ReplyIds(p) :
             /\ reusableConns' = ReleasedReusable(c, FALSE)
             /\ IF ReleaseToIdle(FALSE)
                  THEN /\ rconn' = [rconn EXCEPT ![c] = startIdle(@)]
                       /\ idledReusableConns' = idledReusableConns \cup {c}
                  ELSE /\ rconn' = [rconn EXCEPT ![c] = rcClose(@)]
                       /\ UNCHANGED idledReusableConns
             /\ call' = [call EXCEPT ![p] =
                  [@ EXCEPT !.worker = "exit", !.conn = NoConn, !.resChan = id]]
        \/ \E err \in {errWrite, errRead} :
             /\ reusableConns' = ReleasedReusable(c, TRUE)
             /\ IF ReleaseToIdle(TRUE)
                  THEN /\ rconn' = [rconn EXCEPT ![c] = startIdle(@)]
                       /\ idledReusableConns' = idledReusableConns \cup {c}
                  ELSE /\ rconn' = [rconn EXCEPT ![c] = rcClose(@)]
                       /\ UNCHANGED idledReusableConns
             /\ call' = [call EXCEPT ![p] =
                  IF cl.reused
                    THEN [@ EXCEPT !.worker = "w_loop", !.conn = NoConn]
                    ELSE [@ EXCEPT !.worker = "exit", !.conn = NoConn, !.resErr = err]]
     /\ UNCHANGED <<cfg, closed, pipelineConns, pconn, panicked>>

\* The select of exchangeWithReusableConn: resChan or ctx.Done().
reusableSelect(p) ==
  /\ Running
  /\ call[p].pc = "ru_select"
  /\ \/ /\ call[p].resChan # NoMsg \/ call[p].resErr # errNil
        /\ call' = [call EXCEPT ![p] =
             [@ EXCEPT !.pc = "done", !.r = call[p].resChan, !.err = call[p].resErr,
                       !.resChan = NoMsg, !.resErr = errNil]]
     \/ /\ call[p].ctx
        /\ call' = [call EXCEPT ![p] = [@ EXCEPT !.pc = "done", !.err = errCtx]]
  /\ UNCHANGED <<cfg, closed, pipelineConns, reusableConns, idledReusableConns,
                 pconn, rconn, panicked>>

\* ------------------------------------------ ExchangeContext, no connection reuse
\* exchangeWithoutConnReuse: DialFunc(ctx) returns; on success SetDeadline
\* and the call of WriteFunc.
noReuseDial(p) ==
  /\ Running
  /\ call[p].pc = "nr_dial"
  /\ \/ call' = [call EXCEPT ![p] = [@ EXCEPT !.pc = "nr_write", !.stream = "open"]]
     \/ \E err \in {errDial} \cup (IF call[p].ctx THEN {errCtx} ELSE {}) :
          call' = [call EXCEPT ![p] = [@ EXCEPT !.pc = "done", !.err = err]]
  /\ UNCHANGED <<cfg, closed, pipelineConns, reusableConns, idledReusableConns,
                 pconn, rconn, panicked>>

\* exchangeWithoutConnReuse: WriteFunc returns; on success the reader
\* goroutine starts, on failure the deferred conn.Close() runs.
noReuseWrite(p) ==
  /\ Running
  /\ call[p].pc = "nr_write"
  /\ \/ call' = [call EXCEPT ![p] = [@ EXCEPT !.pc = "nr_select", !.worker = "nr_read"]]
     \/ call' = [call EXCEPT ![p] =
          [@ EXCEPT !.pc = "done", !.err = errWrite, !.stream = "closed"]]
  /\ UNCHANGED <<cfg, closed, pipelineConns, reusableConns, idledReusableConns,
                 pconn, rconn, panicked>>

\* The reader goroutine of exchangeWithoutConnReuse: ReadFunc returns and the
\* result goes to resChan.
noReuseRead(p) ==
  /\ Running
  /\ call[p].worker = "nr_read"
  /\ \/ \E id \in ReplyIds(p) :
          call' = [call EXCEPT ![p] = [@ EXCEPT !.worker = "exit", !.resChan = id]]
     \/ call' = [call EXCEPT ![p] = [@ EXCEPT !.worker = "exit", !.resErr = errRead]]
  /\ UNCHANGED <<cfg, closed, pipelineConns, reusableConns, idledReusableConns,
                 pconn, rconn, panicked>>

\* The select of exchangeWithoutConnReuse: resChan or ctx.Done(); the
\* deferred conn.Close() runs.
noReuseSelect(p) ==
  /\ Running
  /\ call[p].pc = "nr_select"
  /\ \/ /\ call[p].resChan # NoMsg \/ call[p].resErr # errNil
        /\ call' = [call EXCEPT ![p] =
             [@ EXCEPT !.pc = "done", !.r = call[p].resChan, !.err = call[p].resErr,
                       !.resChan = NoMsg, !.resErr = errNil, !.stream = "closed"]]
     \/ /\ call[p].ctx
        /\ call' = [call EXCEPT ![p] =
             [@ EXCEPT !.pc = "done", !.err = errCtx, !.stream = "closed"]]
  /\ UNCHANGED <<cfg, closed, pipelineConns, reusableConns, idledReusableConns,
                 pconn, rconn, panicked>>

\* ------------------------------------------------------- Transport operations
\* The caller's context is cancelled (or its deadline passes).
CancelCtx(p) ==
  /\ Running
  /\ call[p].pc # "done"
  /\ ~call[p].ctx
  /\ call' = [call EXCEPT ![p].ctx = TRUE]
  /\ UNCHANGED <<cfg, closed, pipelineConns, reusableConns, idledReusableConns,
                 pconn, rconn, panicked>>

\* Transport.ExchangeContext: the isClosed check and the choice of strategy.
ExchangeContext(p) ==
  /\ Running
  /\ call[p].pc = "idle"
  /\ call' = [call EXCEPT ![p] =
       IF transportIsClosed
         THEN [@ EXCEPT !.pc = "done", !.err = errClosedTransport,
                        !.entryClosed = closed, !.entryCancelled = call[p].ctx]
         ELSE IF idleTimeout <= 0
           THEN [@ EXCEPT !.pc = "nr_dial", !.dials = @ + 1,
                          !.entryClosed = closed, !.entryCancelled = call[p].ctx]
         ELSE IF cfg.EnablePipeline
           THEN [@ EXCEPT !.pc = "pl_loop",
                          !.entryClosed = closed, !.entryCancelled = call[p].ctx]
           ELSE [@ EXCEPT !.pc = "ru_select", !.worker = "w_loop",
                          !.entryClosed = closed, !.entryCancelled = call[p].ctx]]
  /\ UNCHANGED <<cfg, closed, pipelineConns, reusableConns, idledReusableConns,
                 pconn, rconn, panicked>>

\* Mutant: the first loop stops after the first idle connection it meets.
IdlePipelineConnsFirst ==
  {c \in pipelineConns :
     queueLen(c) = 0 /\ \A d \in pipelineConns : queueLen(d) = 0 => c <= d}

\* CloseIdleConnections, first loop: the pipeline connections it deletes and
\* closes.
IdlePipelineConns == {c \in pipelineConns : queueLen(c) = 0}

\* Transport.CloseIdleConnections, one critical section of Transport.m.
CloseIdleConnections ==
  /\ Running
  /\ pipelineConns' = pipelineConns \ IdlePipelineConns
  /\ pconn' = [c \in PConnIds |->
       IF c \in IdlePipelineConns THEN closeWithErr(pconn[c], errEOL) ELSE pconn[c]]
  /\ rconn' = [c \in RConnIds |->
       IF c \in idledReusableConns THEN rcClose(rconn[c]) ELSE rconn[c]]
  /\ idledReusableConns' = {}
  /\ UNCHANGED <<cfg, closed, reusableConns, call, panicked>>

\* Mutant: Close leaves idledReusableConns alone.
IdledAfterCloseKept == idledReusableConns

\* Close, second loop: idledReusableConns after the deletions.
IdledAfterClose == idledReusableConns \ reusableConns

\* Transport.Close, one critical section of Transport.m.
Close ==
  /\ Running
  /\ closed' = TRUE
  /\ pipelineConns' = {}
  /\ pconn' = [c \in PConnIds |->
       IF c \in pipelineConns THEN closeWithErr(pconn[c], errClosedTransport)
                              ELSE pconn[c]]
  /\ rconn' = [c \in RConnIds |->
       IF c \in reusableConns THEN rcClose(rconn[c]) ELSE rconn[c]]
  /\ reusableConns' = {}
  /\ idledReusableConns' = IdledAfterClose
  /\ UNCHANGED <<cfg, call, panicked>>

Next ==
  \/ \E p \in Callers : ExchangeContext(p)
  \/ \E p \in Callers : CancelCtx(p)
  \/ CloseIdleConnections
  \/ Close
  \/ \E p \in Callers : exchangeWithPipelineConn(p)
  \/ \E p \in Callers : getPipelineConn(p)
  \/ \E p \in Callers : exchangeWaitDial(p)
  \/ \E p \in Callers : exchangeWrite(p)
  \/ \E p \in Callers : exchangeWaitReply(p)
  \/ \E c \in PConnIds : DialTask(c)
  \/ \E c \in PConnIds : EolCloser(c)
  \/ \E c \in PConnIds, id \in WireIds : readLoopMsg(c, id)
  \/ \E c \in PConnIds : readLoopErr(c)
  \/ \E p \in Callers : reusableWorkerLoop(p)
  \/ \E p \in Callers : getReusableConnFromPool(p)
  \/ \E p \in Callers : getReusableConnDial(p)
  \/ \E p \in Callers : reusableExchange(p)
  \/ \E p \in Callers : reusableSelect(p)
  \/ \E c \in RConnIds : IdleTimerFire(c)
  \/ \E c \in RConnIds : IdleTimerFunc(c)
  \/ \E p \in Callers : noReuseDial(p)
  \/ \E p \in Callers : noReuseWrite(p)
  \/ \E p \in Callers : noReuseRead(p)
  \/ \E p \in Callers : noReuseSelect(p)

Spec == Init /\ [][Next]_vars

\* The transport configured for reusable connections without pipelining
\* (IdleTimeout > 0, EnablePipeline unset): the steps that mode can take.
NextReusable ==
  \/ \E p \in Callers : ExchangeContext(p)
  \/ \E p \in Callers : CancelCtx(p)
  \/ CloseIdleConnections
  \/ Close
  \/ \E p \in Callers : reusableWorkerLoop(p)
  \/ \E p \in Callers : getReusableConnFromPool(p)
  \/ \E p \in Callers : getReusableConnDial(p)
  \/ \E p \in Callers : reusableExchange(p)
  \/ \E p \in Callers : reusableSelect(p)
  \/ \E c \in RConnIds : IdleTimerFire(c)
  \/ \E c \in RConnIds : IdleTimerFunc(c)

InitReusable ==
  /\ cfg \in {c \in Configs : c.IdleTimeout >= 0 /\ ~c.EnablePipeline}
  /\ closed = FALSE
  /\ pipelineConns = {}
  /\ reusableConns = {}
  /\ idledReusableConns = {}
  /\ pconn = [c \in PConnIds |-> NewPConn]
  /\ rconn = [c \in RConnIds |-> NewRConn]
  /\ call = [p \in Callers |-> NewCall(p)]
  /\ panicked = FALSE

SpecReusable == InitReusable /\ [][NextReusable]_vars

\* The transport configured for pipelining with a per-connection query limit
\* small enough to be reached: the steps that mode can take.
NextPipeline ==
  \/ \E p \in Callers : ExchangeContext(p)
  \/ \E p \in Callers : CancelCtx(p)
  \/ CloseIdleConnections
  \/ Close
  \/ \E p \in Callers : exchangeWithPipelineConn(p)
  \/ \E p \in Callers : getPipelineConn(p)
  \/ \E p \in Callers : exchangeWaitDial(p)
  \/ \E p \in Callers : exchangeWrite(p)
  \/ \E p \in Callers : exchangeWaitReply(p)
  \/ \E c \in PConnIds : DialTask(c)
  \/ \E c \in PConnIds : EolCloser(c)
  \/ \E c \in PConnIds, id \in WireIds : readLoopMsg(c, id)
  \/ \E c \in PConnIds : readLoopErr(c)

InitPipeline ==
  /\ cfg \in {c \in Configs : c.IdleTimeout >= 0 /\ c.EnablePipeline
                                /\ c.MaxQueryPerConn > 0}
  /\ closed = FALSE
  /\ pipelineConns = {}
  /\ reusableConns = {}
  /\ idledReusableConns = {}
  /\ pconn = [c \in PConnIds |-> NewPConn]
  /\ rconn = [c \in RConnIds |-> NewRConn]
  /\ call = [p \in Callers |-> NewCall(p)]
  /\ panicked = FALSE

\* The end-of-life closer is a goroutine blocked in wg.Wait(): once the wait
\* group is at zero the scheduler runs it.
SpecPipelineFair ==
  /\ InitPipeline
  /\ [][NextPipeline]_vars
  /\ \A c \in PConnIds : WF_vars(EolCloser(c))

\* One iteration of the read loop that changes something: a message is
\* delivered or taken out of the queue, or ReadFunc fails.
readLoopStep(c) == readLoopErr(c) \/ \E id \in WireIds : readLoopMsg(c, id)

\* Every goroutine of the pipeline that can run is run: the dial task
\* (DialFunc returns), the read loop (ReadFunc returns a message or fails at
\* its deadline), the end-of-life closer, and each exchange at its selects
\* and at its write (WriteFunc returns).
SpecPipelineLive ==
  /\ InitPipeline
  /\ [][NextPipeline]_vars
  /\ \A c \in PConnIds :
       WF_vars(DialTask(c)) /\ WF_vars(readLoopStep(c)) /\ WF_vars(EolCloser(c))
  /\ \A p \in Callers :
       WF_vars(exchangeWaitDial(p)) /\ WF_vars(exchangeWrite(p))
         /\ WF_vars(exchangeWaitReply(p))

\* A caller whose ExchangeContext call has returned, and whose worker
\* goroutine has ended, is free to call ExchangeContext again.
ExchangeReturn(p) ==
  /\ Running
  /\ call[p].pc = "done"
  /\ call[p].worker \in {"none", "exit"}
  /\ call' = [call EXCEPT ![p] = NewCall(p)]
  /\ UNCHANGED <<cfg, closed, pipelineConns, reusableConns, idledReusableConns,
                 pconn, rconn, panicked>>

\* The transport configured for reusable connections, used by callers that
\* call ExchangeContext again and again.
NextReusableCalls ==
  \/ \E p \in Callers : ExchangeContext(p)
  \/ \E p \in Callers : ExchangeReturn(p)
  \/ \E p \in Callers : CancelCtx(p)
  \/ CloseIdleConnections
  \/ Close
  \/ \E p \in Callers : reusableWorkerLoop(p)
  \/ \E p \in Callers : getReusableConnFromPool(p)
  \/ \E p \in Callers : getReusableConnDial(p)
  \/ \E p \in Callers : reusableExchange(p)
  \/ \E p \in Callers : reusableSelect(p)
  \/ \E c \in RConnIds : IdleTimerFire(c)
  \/ \E c \in RConnIds : IdleTimerFunc(c)

InitReusableCalls ==
  /\ cfg \in {c \in Configs : c.IdleTimeout >= 0 /\ ~c.EnablePipeline}
  /\ closed = FALSE
  /\ pipelineConns = {}
  /\ reusableConns = {}
  /\ idledReusableConns = {}
  /\ pconn = [c \in PConnIds |-> NewPConn]
  /\ rconn = [c \in RConnIds |-> NewRConn]
  /\ call = [p \in Callers |-> NewCall(p)]
  /\ panicked = FALSE

SpecReusableCalls == InitReusableCalls /\ [][NextReusableCalls]_vars

\* The retry loop of exchangeWithPipelineConn on its own: one iteration's
\* calls with what they return drawn freely.  getPipelineConn returns
\* ClosedTransport on a closed transport and else a connection, new or not;
\* conn.exchange returns a reply or an error, the context's only when the
\* context is done.
pipelineAttempt(p) ==
  /\ Running
  /\ call[p].pc = "pl_get"
  /\ IF closed
       THEN call' = [call EXCEPT ![p] =
              [@ EXCEPT !.pc = "done", !.err = errClosedTransport]]
       ELSE \E isNew \in BOOLEAN :
              \E err \in {errNil, errDial, errWrite, errRead, errEOL, errClosedTransport}
                         \cup (IF call[p].ctx THEN {errCtx} ELSE {}) :
                call' = [call EXCEPT ![p] =
                  PipelineAttemptDone([@ EXCEPT !.isNewConn = isNew,
                                                !.dials = IF isNew THEN @ + 1 ELSE @],
                                      IF err = errNil THEN RestoreId(1, @.q) ELSE NoMsg,
                                      err)]
  /\ UNCHANGED <<cfg, closed, pipelineConns, reusableConns, idledReusableConns,
                 pconn, rconn, panicked>>

NextRetry ==
  \/ \E p \in Callers : ExchangeContext(p)
  \/ \E p \in Callers : CancelCtx(p)
  \/ Close
  \/ \E p \in Callers : exchangeWithPipelineConn(p)
  \/ \E p \in Callers : pipelineAttempt(p)

InitRetry ==
  /\ cfg \in {c \in Configs : c.IdleTimeout >= 0 /\ c.EnablePipeline}
  /\ closed = FALSE
  /\ pipelineConns = {}
  /\ reusableConns = {}
  /\ idledReusableConns = {}
  /\ pconn = [c \in PConnIds |-> NewPConn]
  /\ rconn = [c \in RConnIds |-> NewRConn]
  /\ call = [p \in Callers |-> NewCall(p)]
  /\ panicked = FALSE

SpecRetry == InitRetry /\ [][NextRetry]_vars

\* ------------------------------------------------------------------- claims
\* A pipelined exchange that has reserved a QID and has not returned.
InFlight(p) == call[p].pc \in {"pl_wait_dial", "pl_writing", "pl_wait_reply"}

\* The claimed caps, as the claims state them.
ClaimedMaxConns == IF cfg.MaxConns > 0 THEN cfg.MaxConns ELSE 2

ClaimedMaxQueryPerConn == IF cfg.MaxQueryPerConn > 0 THEN cfg.MaxQueryPerConn ELSE 65535

\* C1: once Close has run, every pipelined exchange that reserved a QID and has
\* not returned is unblocked by the closeNotify of its connection, connections
\* at end of life included.
C1_CloseUnblocksInFlight ==
  closed => \A p \in Callers : InFlight(p) => pconn[call[p].conn].closeNotify

\* C2: an ExchangeContext call that starts on a closed transport returns
\* ClosedTransport at once, in every mode: no Dial, no worker, no stream, no
\* attempt, no position in which it waits.
C2_ExchangeAfterCloseFailsFast ==
  \A p \in Callers :
    call[p].entryClosed =>
      /\ call[p].pc = "done"
      /\ call[p].err = errClosedTransport
      /\ call[p].r = NoMsg
      /\ call[p].dials = 0
      /\ call[p].attempt = 0
      /\ call[p].worker = "none"
      /\ call[p].stream = "none"

C2_Witness ==
  \E p, q \in Callers :
    /\ call[p].entryClosed
    /\ call[p].pc = "done"
    /\ ~call[q].entryClosed
    /\ call[q].dials > 0

\* C3: the number of connections in pipelineConns never exceeds MaxConns
\* (2 when MaxConns is not positive).
C3_PipelineConnsBounded == Cardinality(pipelineConns) <= ClaimedMaxConns

C3_Witness ==
  /\ cfg.MaxConns = 0
  /\ Cardinality(pipelineConns) = 2
  /\ \A c \in pipelineConns : ~pconn[c].closeNotify

\* C4: the number of pipeline connections that are not closed (dialing, open
\* or draining, in pipelineConns or not) never exceeds MaxConns.
C4_OpenPipelineConnsBounded ==
  Cardinality({c \in PConnIds : pconn[c].dial # "none" /\ ~pconn[c].closeNotify})
    <= ClaimedMaxConns

\* C5: every connection's accumulateId stays within 0..MaxQueryPerConn, it is
\* strictly below MaxQueryPerConn while the connection is in pipelineConns,
\* and the "qid overflowed" panic never happens.
C5_AccumulateIdBounded ==
  /\ ~panicked
  /\ \A c \in PConnIds :
       /\ 0 <= pconn[c].accumulateId
       /\ pconn[c].accumulateId <= ClaimedMaxQueryPerConn
       /\ c \in pipelineConns => pconn[c].accumulateId < ClaimedMaxQueryPerConn

C5_Witness ==
  \E c \in PConnIds :
    /\ cfg.MaxQueryPerConn = 2
    /\ pconn[c].accumulateId = 2
    /\ c \notin pipelineConns
    /\ ~pconn[c].closeNotify

\* No QID appears twice among those acquireQueueId handed out on a connection,
\* and two exchanges in flight on one connection hold different QIDs.
QidsDistinct ==
  /\ \A c \in PConnIds :
       \A i, j \in DOMAIN pconn[c].issued :
         i # j => pconn[c].issued[i] # pconn[c].issued[j]
  /\ \A p, q \in Callers :
       (p # q /\ InFlight(p) /\ InFlight(q) /\ call[p].conn = call[q].conn)
         => call[p].qid # call[q].qid

\* A delivery channel registered in a queue under a QID is never replaced by
\* another one.
SlotsKept ==
  \A c \in PConnIds :
    \A k \in DOMAIN pconn[c].queue \cap DOMAIN pconn'[c].queue :
      pconn'[c].queue[k] = pconn[c].queue[k]

\* C6: on one pipeline connection no QID is handed out twice, so no delivery
\* slot registered under a QID is overwritten by another exchange.
C6_QidsUnique == []QidsDistinct /\ [][SlotsKept]_vars

C6_Witness ==
  \E p, q \in Callers :
    /\ p # q
    /\ InFlight(p)
    /\ InFlight(q)
    /\ call[p].conn = call[q].conn
    /\ call[p].pc = "pl_wait_reply"
    /\ call[q].pc = "pl_wait_reply"

\* A message waiting in an exchange's delivery channel carries the QID the
\* exchange reserved, and a reply returned by a pipelined call carries the
\* identifier of the caller's query.
RepliesMatch ==
  PipelineMode =>
    \A p \in Callers :
      /\ (InFlight(p) /\ call[p].resChan # NoMsg) => call[p].resChan = call[p].qid
      /\ (call[p].pc = "done" /\ call[p].r # NoMsg) => call[p].r = call[p].q

\* One step puts a message into at most one delivery channel.
OneDelivery ==
  Cardinality({p \in Callers : call'[p].resChan # NoMsg
                                /\ call'[p].resChan # call[p].resChan}) <= 1

\* C7: a pipelined exchange that returns a reply returns a message the read
\* loop received under the QID reserved for it, each received message goes to
\* at most one exchange, and the returned identifier is the caller's own.
C7_ReplyRoundTrip == []RepliesMatch /\ [][OneDelivery]_vars

C7_Witness ==
  /\ PipelineMode
  /\ \A p \in Callers : call[p].pc = "done" /\ call[p].r = QueryId(p)

\* C8: every connection in idledReusableConns is in reusableConns.
C8_IdledSubsetOfReusable == idledReusableConns \subseteq reusableConns

C8_Witness ==
  /\ idledReusableConns # {}
  /\ reusableConns \ idledReusableConns # {}
  /\ \E c \in idledReusableConns : rconn[c].closed

\* C9: a call entered on an open transport with its context already cancelled
\* never invokes Dial and returns the context's error, in every mode.
C9_CancelledOnEntryNoDial ==
  \A p \in Callers :
    (call[p].entryCancelled /\ ~call[p].entryClosed) =>
      /\ call[p].dials = 0
      /\ call[p].pc = "done" => (call[p].err = errCtx /\ call[p].r = NoMsg)

\* C10: CloseIdleConnections neither closes nor removes from pipelineConns a
\* pipeline connection on which an exchange has reserved a QID and not yet
\* returned, and does not close a reusable connection an exchange holds.
C10_CloseIdleSparesInUse ==
  [][CloseIdleConnections =>
       /\ \A c \in PConnIds :
            pconn[c].wg > 0 =>
              /\ pconn'[c].closeNotify = pconn[c].closeNotify
              /\ c \in pipelineConns => c \in pipelineConns'
       /\ \A p \in Callers :
            call[p].worker = "w_exchange" =>
              rconn'[call[p].conn].closed = rconn[call[p].conn].closed]_vars

\* A pipelined exchange that can leave its select only through ctx.Done().
CancelOnly(p) ==
  /\ call[p].ctx
  /\ call[p].pc \in {"pl_wait_dial", "pl_wait_reply"}
  /\ ~pconn[call[p].conn].closeNotify
  /\ \/ call[p].pc = "pl_wait_dial" /\ ~pconn[call[p].conn].dialFinishedNotify
     \/ call[p].pc = "pl_wait_reply" /\ call[p].resChan = NoMsg

\* The step in which such an exchange returns: the call ends with the context
\* error (at once, or at the head of the retry loop), the connection keeps
\* everything but its wait group count, and no other call is touched.
CancelReturns(p) ==
  (CancelOnly(p) /\ call'[p].pc # call[p].pc) =>
    /\ call'[p].pc \in {"done", "pl_loop"}
    /\ call'[p].pc = "done" => (call'[p].err = errCtx /\ call'[p].r = NoMsg)
    /\ pconn' = [pconn EXCEPT ![call[p].conn].wg = @ - 1]
    /\ pipelineConns' = pipelineConns
    /\ \A q \in Callers \ {p} : call'[q] = call[q]

\* A cancelled call at the head of the retry loop returns the context error.
CancelledRetryReturns(p) ==
  (call[p].pc = "pl_loop" /\ call[p].ctx /\ call'[p] # call[p]) =>
    (call'[p].pc = "done" /\ call'[p].err = errCtx /\ call'[p].r = NoMsg)

\* The read loop takes a slot nobody listens on out of the queue: no call
\* changes, and the read loop goes on reading the open stream.
LateReplyDropped ==
  \A c \in PConnIds :
    \A id \in DOMAIN pconn[c].queue :
      (id \notin DOMAIN pconn'[c].queue
         /\ ~Listening(pconn[c].queue[id][1], pconn[c].queue[id])) =>
        /\ call' = call
        /\ pconn'[c].readLoop
        /\ pconn'[c].stream = "open"
        /\ ~pconn'[c].closeNotify

\* C11: an in-flight pipelined exchange whose context is cancelled returns the
\* context error and leaves its connection as it was (not closed, the slots
\* and the state of the other exchanges untouched); a reply that arrives later
\* under its QID is dropped and the read loop goes on.
C11_CancelLeavesConn ==
  [][/\ \A p \in Callers : CancelReturns(p) /\ CancelledRetryReturns(p)
     /\ LateReplyDropped]_vars

C11_Witness ==
  \E p, q \in Callers : \E c \in PConnIds : \E id \in DOMAIN pconn[c].queue :
    /\ pconn[c].queue[id][1] = p
    /\ call[p].pc = "done"
    /\ call[p].err = errCtx
    /\ ~pconn[c].closeNotify
    /\ pconn[c].stream = "open"
    /\ call[q].conn = c
    /\ call[q].pc = "pl_wait_reply"

\* C12: Close sets closed before it closes a connection (a connection closed
\* with the ClosedTransport cause, or an admitted reusable connection closed
\* by Close, is only seen on a closed transport), and once Close has returned
\* pipelineConns, reusableConns and idledReusableConns are empty for good.
C12_BagsEmptyAfterClose ==
  /\ \A c \in PConnIds : pconn[c].closeErr = errClosedTransport => closed
  /\ closed =>
       /\ pipelineConns = {}
       /\ reusableConns = {}
       /\ idledReusableConns = {}

C12_Witness ==
  \E p, q \in Callers :
    /\ closed
    /\ ~call[p].entryClosed
    /\ call[p].worker = "exit"
    /\ call[p].resChan # NoMsg
    /\ ~call[q].entryClosed
    /\ call[q].worker = "exit"
    /\ call[q].resErr = errClosedTransport
    /\ call[q].dials > 0
    /\ \A c \in RConnIds : rconn[c].made /\ rconn[c].closed

\* The bags and the closed/open status of the connections do not change when
\* CloseIdleConnections runs in the state the step leads to.
CloseIdleAgainNoChange ==
  /\ pipelineConns' \ IdlePipelineConns' = pipelineConns'
  /\ idledReusableConns' = {}
  /\ \A c \in IdlePipelineConns' :
       closeWithErr(pconn'[c], errEOL).closeNotify = pconn'[c].closeNotify
  /\ \A c \in idledReusableConns' : rcClose(rconn'[c]).closed = rconn'[c].closed

\* C13: CloseIdleConnections called again right after CloseIdleConnections
\* leaves pipelineConns, reusableConns, idledReusableConns and the closed/open
\* status of every connection as the first call left them.
C13_CloseIdleIdempotent == [][CloseIdleConnections => CloseIdleAgainNoChange]_vars

C13_Witness ==
  \E c \in PConnIds : \E d \in pipelineConns :
    /\ pconn[c].closeErr = errEOL
    /\ pconn[c].accumulateId < maxQueryPerConn
    /\ c \notin pipelineConns
    /\ ~pconn[d].closeNotify
    /\ queueLen(d) > 0

\* The exchanges that reserved a QID on connection c and have not returned.
InFlightOn(c) == {p \in Callers : InFlight(p) /\ call[p].conn = c}

\* The step in which the counter of c reaches the limit takes c out of
\* pipelineConns and does not close it.
EolRemoves(c) ==
  (pconn[c].accumulateId # maxQueryPerConn /\ pconn'[c].accumulateId = maxQueryPerConn) =>
    /\ c \notin pipelineConns'
    /\ ~pconn'[c].closeNotify

\* The step that closes c with the EndOfLife cause after its counter reached
\* the limit finds no exchange in flight on c.
EolClosesDrained(c) ==
  (pconn[c].accumulateId = maxQueryPerConn /\ ~pconn[c].closeNotify
     /\ pconn'[c].closeNotify /\ pconn'[c].closeErr = errEOL) =>
    /\ InFlightOn(c) = {}
    /\ pconn[c].wg = 0

\* A connection at end of life on which no exchange is in flight.
EolDrained(c) ==
  pconn[c].dial # "none" /\ pconn[c].accumulateId = maxQueryPerConn /\ InFlightOn(c) = {}

\* C14: a pipeline connection whose counter reaches MaxQueryPerConn leaves
\* pipelineConns unclosed, its end-of-life closer closes it with the EndOfLife
\* cause only when no exchange that reserved a QID on it is still in flight,
\* and once none is the connection is eventually closed.
C14_EolDrainsThenCloses ==
  /\ [][\A c \in PConnIds : EolRemoves(c) /\ EolClosesDrained(c)]_vars
  /\ \A c \in PConnIds : EolDrained(c) ~> pconn[c].closeNotify

C14_Witness ==
  \E c \in PConnIds :
    /\ cfg.MaxQueryPerConn = 2
    /\ pconn[c].accumulateId = 2
    /\ pconn[c].closeErr = errEOL
    /\ pconn[c].stream = "closed"
    /\ \A p \in Callers : call[p].pc = "done" /\ call[p].r = QueryId(p)

\* The rule as claimed: a new connection when there is no candidate, or when
\* an exchange is in flight on the candidate and the pool is below MaxConns.
ClaimedNeedNewConn(cand, conns) ==
  cand = NoConn \/ (InFlightOn(cand) # {} /\ Cardinality(conns) < ClaimedMaxConns)

\* A getPipelineConn step of call p that hands out a connection decides as the
\* claimed rule does for some candidate the range loop may stop at.
DecidesAsClaimed(p) ==
  (call[p].pc = "pl_get" /\ call'[p].pc = "pl_wait_dial") =>
    \E sel \in PipelineCandidates :
      /\ call'[p].isNewConn = ClaimedNeedNewConn(sel[1], sel[2])
      /\ ~call'[p].isNewConn => call'[p].conn = sel[1]
      /\ pipelineConns' \cup {call'[p].conn} = sel[2] \cup {call'[p].conn}

\* C15: getPipelineConn creates a new connection exactly when no non-closed
\* candidate exists, or the candidate has an exchange in flight (QID reserved,
\* not returned) and pipelineConns holds fewer than MaxConns connections;
\* otherwise it reuses the candidate.
C15_NewConnWhenBusy == [][\A p \in Callers : DecidesAsClaimed(p)]_vars

\* C16: on one pipeline connection at most one exchange at a time is between
\* SetWriteDeadline and the return of WriteFunc.
C16_WritesSerialised ==
  \A p, q \in Callers :
    (p # q /\ call[p].pc = "pl_writing" /\ call[q].pc = "pl_writing")
      => call[p].conn # call[q].conn

\* A pipelined call is in the loop at most 4 times.
AttemptsBounded == \A p \in Callers : call[p].attempt <= 4

\* The step in which an attempt of call p ends in a retry: the connection was
\* not created by that attempt.  (An attempt that fails on a connection it
\* created therefore ends the call with its error.)
RetryOnlyReused ==
  \A p \in Callers :
    (call[p].pc \in {"pl_get", "pl_wait_dial", "pl_writing", "pl_wait_reply"}
       /\ call'[p].pc = "pl_loop") =>
      /\ ~call'[p].isNewConn
      /\ call[p].attempt <= 3

\* C17: a pipelined ExchangeContext call makes at most 4 attempts, retries a
\* failed attempt only when the attempt did not create its connection, and
\* returns a failure on a connection the attempt created.
C17_RetryOnlyReusedAtMost4 == []AttemptsBounded /\ [][RetryOnlyReused]_vars

C17_Witness ==
  \E p, q \in Callers :
    /\ call[p].pc = "done"
    /\ call[p].attempt = 4
    /\ ~call[p].isNewConn
    /\ call[p].err = errRead
    /\ call[q].pc = "done"
    /\ call[q].attempt = 1
    /\ call[q].isNewConn
    /\ call[q].err = errWrite

\* The step in which the exchange of call p fails on a connection taken from
\* the idle pool: the connection leaves reusableConns, is closed and is not
\* in the idle pool; and no connection outside reusableConns enters the pool.
DeadReusedDiscarded ==
  /\ \A p \in Callers :
       (call[p].worker = "w_exchange" /\ call[p].reused /\ call'[p].worker = "w_loop") =>
         /\ call[p].conn \notin reusableConns'
         /\ call[p].conn \notin idledReusableConns'
         /\ rconn'[call[p].conn].closed
  /\ \A c \in RConnIds :
       (rconn[c].made /\ c \notin reusableConns) => c \notin idledReusableConns'

\* The attempt that follows a failure on a pooled connection dials.
NextAttemptFresh ==
  \A p \in Callers :
    (call[p].worker = "w_pool" /\ call[p].reused /\ ~closed
       /\ call'[p].worker # "w_pool") => call'[p].worker = "w_dial"

\* The step in which the exchange fails on a connection the attempt dialed:
\* the worker ends with the error as its result.
FreshFailureReturned ==
  \A p \in Callers :
    (call[p].worker = "w_exchange" /\ ~call[p].reused
       /\ call'[p].worker # "w_exchange" /\ call'[p].resChan = NoMsg) =>
      /\ call'[p].worker = "exit"
      /\ call'[p].resErr \in {errWrite, errRead}

\* C18: with reusable connections, a failed exchange on a pooled connection
\* removes it from reusableConns, closes it, keeps it out of the idle pool for
\* good, and the next attempt runs on a freshly dialed connection; a failed
\* exchange on a freshly dialed connection ends the worker with that error.
C18_DeadConnDiscardedRetryFresh ==
  [][DeadReusedDiscarded /\ NextAttemptFresh /\ FreshFailureReturned]_vars

\* The calls whose worker holds reusable connection c for an exchange.
HoldersOf(c) == {p \in Callers : call[p].worker = "w_exchange" /\ call[p].conn = c}

\* The step in which getReusableConn hands a connection to call p: it is not
\* closed, not in the idle pool, its timer is not running and has not fired,
\* nobody else holds it, and if it came from the pool its stopIdle succeeded.
HandedOutExclusive(p) ==
  (call[p].worker \in {"w_pool", "w_dial"} /\ call'[p].worker = "w_exchange") =>
    /\ ~rconn'[call'[p].conn].closed
    /\ call'[p].conn \notin idledReusableConns'
    /\ rconn'[call'[p].conn].idleTimeoutTimer \in {"nil", "stopped"}
    /\ HoldersOf(call'[p].conn) = {}
    /\ call'[p].reused => stopIdleOk(rconn[call'[p].conn])

\* No reusable connection is held by two exchanges, and none that is held
\* sits in the idle pool or has its idle timer running.
OneHolder ==
  \A c \in RConnIds :
    /\ Cardinality(HoldersOf(c)) <= 1
    /\ HoldersOf(c) # {} =>
         (c \notin idledReusableConns /\ rconn[c].idleTimeoutTimer \in {"nil", "stopped"})

\* C19: a reusable connection handed out by getReusableConn is at that moment
\* not closed, not in idledReusableConns, its idle timer stopped before
\* firing, and held by no other exchange; a connection whose stopIdle fails
\* is not handed out, and no reusable connection carries two exchanges.
C19_ReusableConnExclusive ==
  []OneHolder /\ [][\A p \in Callers : HandedOutExclusive(p)]_vars

C19_Witness ==
  \E p, q \in Callers : \E c \in RConnIds :
    /\ p # q
    /\ call[p].worker = "w_exchange"
    /\ call[p].reused
    /\ rconn[call[p].conn].idleTimeoutTimer = "stopped"
    /\ call[q].worker = "w_pool"
    /\ c # call[p].conn
    /\ c \in idledReusableConns
    /\ rconn[c].idleTimeoutTimer = "fired"

\* A closed pipeline connection has a cause; a dialed stream is open only on
\* a connection that is not closed, is closed only on a closed one, and is
\* closed at most once; once the dial task is over a closed connection has
\* no open stream.
StreamFollowsConn ==
  \A c \in PConnIds :
    /\ pconn[c].closeNotify <=> pconn[c].closeErr # errNil
    /\ pconn[c].stream = "open" => ~pconn[c].closeNotify
    /\ pconn[c].stream = "closed" => (pconn[c].closeNotify /\ pconn[c].streamCloses = 1)
    /\ pconn[c].stream = "none" => pconn[c].streamCloses = 0
    /\ pconn[c].streamCloses <= 1

\* A closed pipeline connection stays closed with the cause it has, and a
\* closed stream is not closed again.
CauseKept ==
  \A c \in PConnIds :
    /\ pconn[c].closeNotify =>
         (pconn'[c].closeNotify /\ pconn'[c].closeErr = pconn[c].closeErr)
    /\ pconn[c].stream = "closed" =>
         (pconn'[c].stream = "closed" /\ pconn'[c].streamCloses = pconn[c].streamCloses)

\* C20: whatever the interleaving of the dial task with the closeWithErr calls
\* on a pipeline connection, its close cause is the error of the first call
\* and never changes, and a stream the dial produced is closed exactly once,
\* when the connection is closed: never left open on a closed connection and
\* never closed twice.
C20_CloseOnceStreamOnce == []StreamFollowsConn /\ [][CauseKept]_vars

C20_Witness ==
  \E c, d \in PConnIds :
    /\ pconn[c].dial = "done"
    /\ ~pconn[c].c
    /\ pconn[c].stream = "closed"
    /\ pconn[c].closeErr = errClosedTransport
    /\ pconn[d].c
    /\ pconn[d].stream = "closed"
    /\ pconn[d].closeErr = errWrite
    /\ ~pconn[d].readLoop

\* The step in which the exchange of call p returns to the caller of
\* ExchangeContext: a reply and no error, or no reply and either the close
\* cause of its closed connection or the error of its done context.
ReturnsOneOfThree(p) ==
  (InFlight(p) /\ call'[p].pc = "done") =>
    \/ call'[p].r = call[p].q /\ call'[p].err = errNil
    \/ /\ call'[p].r = NoMsg
       /\ pconn'[call[p].conn].closeNotify
       /\ call'[p].err = pconn'[call[p].conn].closeErr
    \/ call'[p].r = NoMsg /\ call[p].ctx /\ call'[p].err = errCtx

\* A read or dial failure closes the connection.
FailureCloses ==
  \A c \in PConnIds :
    (\/ /\ pconn[c].dial = "dialing"
        /\ pconn'[c].dial = "done"
        /\ ~pconn'[c].dialFinishedNotify
     \/ /\ pconn[c].readLoop
        /\ ~pconn'[c].readLoop) => pconn'[c].closeNotify

\* Every exchange that has reserved a QID returns.
ExchangesReturn == \A p \in Callers : InFlight(p) ~> ~InFlight(p)

\* C21: under fair scheduling, with Dial, Write and Read returning, every
\* pipelined exchange that reserved a QID eventually returns, and what it
\* returns is a reply, the close cause of its connection or the context
\* error; a read or dial failure closes the connection.
C21_ExchangeReturnsOneOfThree ==
  /\ [][FailureCloses /\ \A p \in Callers : ReturnsOneOfThree(p)]_vars
  /\ ExchangesReturn

====
